---- MODULE Spec2Model ----
(***************************************************************************)
(* Seven stand-alone JSON validators: each run loads one JSON object,      *)
(* evaluates its ordered checks, prints a result envelope and exits; a run *)
(* that dies of an uncaught exception prints no envelope and exits 1.      *)
(*                                                                         *)
(* JSON values are tagged records [t |-> type, v |-> payload].  A string   *)
(* is a sequence of chunks (each chunk stands for a run of characters), so *)
(* that str(), strip(), lower() and urlparse() are computed on the text.   *)
(* An object is a function from its keys to values.  Python's None and     *)
(* JSON null are the same value.                                           *)
(***************************************************************************)
EXTENDS Integers, Sequences, FiniteSets, TLC

VARIABLES pc, tool, data, stdout, exit_status

vars == <<pc, tool, data, stdout, exit_status>>

\* ------------------------------------------------------------ bounds
\* integer amounts range over 0..MaxAmount
MaxAmount == 2
\* validation_results arrays hold at most MaxItems items
MaxItems == 2

\* ------------------------------------------------------------ JSON values
Absent == [t |-> "absent"]
Null == [t |-> "null"]
JBool(b) == [t |-> "bool", v |-> b]
JInt(n) == [t |-> "int", v |-> n]
\* a JSON number with a fractional part: n + 1/2
JFloat(n) == [t |-> "float", v |-> n]
JStr(s) == [t |-> "str", v |-> s]
S(c) == JStr(<<c>>)
JList(l) == [t |-> "list", v |-> l]
JObj(f) == [t |-> "obj", v |-> f]
EmptyObj == <<>>

\* the object made of the fields of f that are not Absent
Prune(f) == [k \in {x \in DOMAIN f : f[x].t # "absent"} |-> f[k]]

\* equality of two JSON values as JSON: same type and same content
JsonEq(a, b) == a.t = b.t /\ (a.t \in {"absent", "null"} \/ a.v = b.v)

\* ------------------------------------------------------------ Python
\* d.get(k): None when the key is absent
Get(d, k) == IF k \in DOMAIN d THEN d[k] ELSE Null
\* d.get(k, default)
GetDefault(d, k, dflt) == IF k \in DOMAIN d THEN d[k] ELSE dflt

\* isinstance(x, dict / list / str)
IsDict(x) == x.t = "obj"
IsList(x) == x.t = "list"
IsStr(x) == x.t = "str"
\* isinstance(x, int): bool is a subclass of int in Python
IsInt(x) == x.t \in {"int", "bool"}
\* x is True
IsTrue(x) == x.t = "bool" /\ x.v = TRUE

\* bool(x)
Truthy(x) ==
    CASE x.t = "null" -> FALSE
      [] x.t = "bool" -> x.v
      [] x.t = "int" -> x.v # 0
      [] x.t = "float" -> TRUE
      [] x.t = "str" -> x.v # <<>>
      [] x.t = "list" -> x.v # <<>>
      [] x.t = "obj" -> DOMAIN x.v # {}
      [] OTHER -> FALSE

\* the integer an int or bool stands for (True is 1, False is 0)
IntValue(x) == IF x.t = "bool" THEN (IF x.v THEN 1 ELSE 0) ELSE x.v

\* a == b in Python: numbers compare by value across bool/int/float, everything
\* else by type and content
PyEq(a, b) ==
    IF IsInt(a) /\ IsInt(b) THEN IntValue(a) = IntValue(b)
    ELSE JsonEq(a, b)

\* str(x): the text of a value (a string is its own text)
Str(x) ==
    CASE x.t = "str" -> x.v
      [] x.t = "null" -> <<"None">>
      [] x.t = "bool" -> (IF x.v THEN <<"True">> ELSE <<"False">>)
      [] x.t = "int" -> <<ToString(x.v)>>
      [] x.t = "float" -> <<ToString(x.v), ".", "5">>
      [] x.t = "list" -> <<"[", "]">>
      [] OTHER -> <<"{", "}">>

\* a chunk of white space
IsSpace(c) == c \in {" ", "\t"}

\* s.strip(): without its leading and trailing white space
RECURSIVE LStrip(_)
LStrip(s) == IF s # <<>> /\ IsSpace(Head(s)) THEN LStrip(Tail(s)) ELSE s
RECURSIVE RStrip(_)
RStrip(s) ==
    IF s # <<>> /\ IsSpace(s[Len(s)]) THEN RStrip(SubSeq(s, 1, Len(s) - 1)) ELSE s
Strip(s) == RStrip(LStrip(s))

\* s.lower(), chunk by chunk: the chunks of the model that hold capitals
LowerChunk(c) ==
    CASE c = "Google" -> "google"
      [] c = "GITHUB" -> "github"
      [] c = "HTTPS" -> "https"
      [] c = "API.X.COM" -> "api.x.com"
      [] c = "None" -> "none"
      [] c = "True" -> "true"
      [] c = "False" -> "false"
      [] OTHER -> c
Lower(s) == [i \in 1..Len(s) |-> LowerChunk(s[i])]

\* ------------------------------------------------------------ envelope
\* err(code, message, path, remediation): message and remediation are text
\* chosen by the call site (some messages quote the offending status, provider
\* or key); code and path identify the call site and are what is kept here
err(code, path) == [code |-> code, path |-> path]

Envelope(ok, name, errors, warnings, result) ==
    [ok |-> ok, tool |-> name, errors |-> errors, warnings |-> warnings,
     result |-> result]

\* print(json.dumps(envelope)); return status
Emit(env, status) == [out |-> <<env>>, exit |-> status]

\* an uncaught exception: traceback on stderr, nothing printed, status 1
Uncaught == [out |-> <<>>, exit |-> 1]

\* for key in keys: if key not in obj: errors.append(err("MISSING_FIELD", .., prefix + key, ..))
RECURSIVE MissingFields(_, _, _)
MissingFields(keys, obj, prefix) ==
    IF keys = <<>> THEN <<>>
    ELSE (IF Head(keys) \notin DOMAIN obj
          THEN <<err("MISSING_FIELD", prefix \o Head(keys))>>
          ELSE <<>>)
         \o MissingFields(Tail(keys), obj, prefix)

\* ------------------------------------------------------------ input values
Amounts == {JInt(n) : n \in 0..MaxAmount} \cup {JBool(TRUE), JFloat(1)}
References == {S("ref1"), S("ref2"), JInt(1)}
OrderStatuses == {Absent, S("paid"), S("pending")}

\* ------------------------------------------------------------
\* flutterwave-integration/scripts/validate-verify-response.py
VVR == "validate-verify-response"

vvr_already_paid(d) == PyEq(Get(d, "order_status"), S("paid"))

vvr_tx_ref_mismatch(expected_tx_ref, tx_ref) ==
    IsStr(expected_tx_ref) /\ IsStr(tx_ref) /\ ~PyEq(tx_ref, expected_tx_ref)

vvr_amount_mismatch(expected_amount, amount) ==
    IsInt(expected_amount) /\ IsInt(amount) /\ ~PyEq(amount, expected_amount)

\* mutant of vvr_field_errors: the nested fields reported without their parent
vvr_field_errors_unprefixed(d) ==
    LET raw == GetDefault(d, "verify_payload", JObj(EmptyObj))
        payload == IF IsDict(raw) THEN raw.v ELSE EmptyObj
    IN MissingFields(<<"expected_tx_ref", "expected_amount", "verify_payload">>, d, "")
       \o (IF ~IsDict(raw) THEN <<err("INVALID_TYPE", "verify_payload")>> ELSE <<>>)
       \o MissingFields(<<"status", "tx_ref", "amount">>, payload, "")

\* the errors collected before the order_status test (lines 27-38)
vvr_field_errors(d) ==
    LET raw == GetDefault(d, "verify_payload", JObj(EmptyObj))
        payload == IF IsDict(raw) THEN raw.v ELSE EmptyObj
    IN MissingFields(<<"expected_tx_ref", "expected_amount", "verify_payload">>, d, "")
       \o (IF ~IsDict(raw) THEN <<err("INVALID_TYPE", "verify_payload")>> ELSE <<>>)
       \o MissingFields(<<"status", "tx_ref", "amount">>, payload, "verify_payload.")

\* mutant of vvr_paid_exit: the short-circuit reports the errors collected so far
vvr_paid_exit_reporting(errors) ==
    Emit(Envelope(errors = <<>>, VVR, errors, <<>>,
                  [action |-> "no-op", reason |-> "order already paid",
                   idempotent |-> TRUE]), IF errors = <<>> THEN 0 ELSE 1)

\* the envelope of the order_status == "paid" exit (line 41)
vvr_paid_exit(errors) ==
    Emit(Envelope(TRUE, VVR, <<>>, <<>>,
                  [action |-> "no-op", reason |-> "order already paid",
                   idempotent |-> TRUE]), 0)

\* the envelope of the status == "success-pending-validation" exit (lines 56-64)
vvr_pending_exit(errors) ==
    Emit(Envelope(TRUE, VVR, <<>>,
                  <<"await webhook confirmation before fulfillment">>,
                  [action |-> "await-webhook", settled |-> FALSE]), 0)

\* the errors collected up to the status tests (lines 27-54)
vvr_mismatch_errors(d) ==
    LET raw == GetDefault(d, "verify_payload", JObj(EmptyObj))
        payload == IF IsDict(raw) THEN raw.v ELSE EmptyObj
    IN vvr_field_errors(d)
       \o (IF vvr_tx_ref_mismatch(Get(d, "expected_tx_ref"), Get(payload, "tx_ref"))
           THEN <<err("TX_REF_MISMATCH", "verify_payload.tx_ref")>> ELSE <<>>)
       \o (IF vvr_amount_mismatch(Get(d, "expected_amount"), Get(payload, "amount"))
           THEN <<err("AMOUNT_MISMATCH", "verify_payload.amount")>> ELSE <<>>)

validate_verify_response(d) ==
    LET raw == GetDefault(d, "verify_payload", JObj(EmptyObj))
        payload == IF IsDict(raw) THEN raw.v ELSE EmptyObj
        status == Get(payload, "status")
        tx_ref == Get(payload, "tx_ref")
        amount == Get(payload, "amount")
        errors == vvr_mismatch_errors(d)
            \o (IF ~PyEq(status, S("successful"))
                THEN <<err("INVALID_STATUS", "verify_payload.status")>> ELSE <<>>)
    IN IF vvr_already_paid(d) THEN vvr_paid_exit(vvr_field_errors(d))
       ELSE IF PyEq(status, S("success-pending-validation"))
            THEN vvr_pending_exit(vvr_mismatch_errors(d))
       ELSE IF errors # <<>>
            THEN Emit(Envelope(FALSE, VVR, errors, <<>>, [action |-> "reject"]), 1)
            ELSE Emit(Envelope(TRUE, VVR, <<>>, <<>>,
                               [action |-> "mark-paid", tx_ref |-> tx_ref,
                                amount |-> amount, settled |-> TRUE]), 0)

VVRPayloads ==
    {Absent, S("oops")} \cup
    {JObj(Prune([status |-> st, tx_ref |-> r, amount |-> a])) :
        st \in {Absent, S("successful"), S("success-pending-validation"), S("failed")},
        r \in References \cup {Absent},
        a \in Amounts \cup {Absent}}

VVRInputs ==
    {Prune([order_status |-> os, expected_tx_ref |-> r, expected_amount |-> a,
            verify_payload |-> p]) :
        os \in OrderStatuses, r \in References \cup {Absent},
        a \in Amounts \cup {Absent}, p \in VVRPayloads}

\* ------------------------------------------------------------
\* paystack-integration/scripts/validate-payment-contract.py
VPC == "validate-payment-contract"

vpc_already_paid(d) == PyEq(Get(d, "order_status"), S("paid"))

vpc_reference_mismatch(expected_reference, actual_reference) ==
    IsStr(expected_reference) /\ IsStr(actual_reference)
    /\ ~PyEq(actual_reference, expected_reference)

vpc_amount_mismatch(expected_amount, actual_amount) ==
    IsInt(expected_amount) /\ IsInt(actual_amount)
    /\ ~PyEq(actual_amount, expected_amount)

\* the errors collected before the order_status test (lines 28-40)
vpc_field_errors(d) ==
    LET raw == GetDefault(d, "verify_payload", JObj(EmptyObj))
        verify_payload == IF IsDict(raw) THEN raw.v ELSE EmptyObj
    IN MissingFields(<<"expected_reference", "expected_amount_kobo", "verify_payload">>, d, "")
       \o (IF ~IsDict(raw) THEN <<err("INVALID_TYPE", "verify_payload")>> ELSE <<>>)
       \o MissingFields(<<"status", "reference", "amount">>, verify_payload, "verify_payload.")

\* the envelope of the order_status == "paid" exit (lines 43-50)
vpc_paid_exit(errors) ==
    Emit(Envelope(TRUE, VPC, <<>>, <<>>,
                  [action |-> "no-op", reason |-> "order already paid",
                   idempotent |-> TRUE]), 0)

\* all the errors of a run that is not short-circuited (lines 28-65)
vpc_errors(d) ==
    LET raw == GetDefault(d, "verify_payload", JObj(EmptyObj))
        verify_payload == IF IsDict(raw) THEN raw.v ELSE EmptyObj
    IN vpc_field_errors(d)
       \o (IF vpc_reference_mismatch(Get(d, "expected_reference"),
                                     Get(verify_payload, "reference"))
           THEN <<err("REFERENCE_MISMATCH", "verify_payload.reference")>> ELSE <<>>)
       \o (IF vpc_amount_mismatch(Get(d, "expected_amount_kobo"),
                                  Get(verify_payload, "amount"))
           THEN <<err("AMOUNT_MISMATCH", "verify_payload.amount")>> ELSE <<>>)
       \o (IF ~PyEq(Get(verify_payload, "status"), S("success"))
           THEN <<err("INVALID_STATUS", "verify_payload.status")>> ELSE <<>>)

validate_payment_contract(d) ==
    LET raw == GetDefault(d, "verify_payload", JObj(EmptyObj))
        verify_payload == IF IsDict(raw) THEN raw.v ELSE EmptyObj
    IN IF vpc_already_paid(d) THEN vpc_paid_exit(vpc_field_errors(d))
       ELSE IF vpc_errors(d) # <<>>
            THEN Emit(Envelope(FALSE, VPC, vpc_errors(d), <<>>, [action |-> "reject"]), 1)
            ELSE Emit(Envelope(TRUE, VPC, <<>>, <<>>,
                               [action |-> "mark-paid", idempotent |-> FALSE,
                                reference |-> Get(verify_payload, "reference"),
                                amount_kobo |-> Get(verify_payload, "amount")]), 0)

VPCPayloads ==
    {Absent, S("oops")} \cup
    {JObj(Prune([status |-> st, reference |-> r, amount |-> a])) :
        st \in {Absent, S("success"), S("pending")},
        r \in References \cup {Absent},
        a \in Amounts \cup {Absent}}

VPCInputs ==
    {Prune([order_status |-> os, expected_reference |-> r, expected_amount_kobo |-> a,
            verify_payload |-> p]) :
        os \in OrderStatuses, r \in References \cup {Absent},
        a \in Amounts \cup {Absent}, p \in VPCPayloads}

\* ------------------------------------------------------------
\* paystack-integration/scripts/check-webhook-contract.py
CWC == "check-webhook-contract"

cwc_already_paid(d) == PyEq(Get(d, "order_status"), S("paid"))

\* mutant of cwc_raw_body_missing: `not raw_body_enabled` in place of `is not True`
cwc_raw_body_falsy(raw_body_enabled) == ~Truthy(raw_body_enabled)

cwc_raw_body_missing(raw_body_enabled) == ~IsTrue(raw_body_enabled)

cwc_wrong_header_name(header_name) == ~PyEq(header_name, S("x-paystack-signature"))

cwc_signature_missing(signature) == ~Truthy(signature)

cwc_reference_mismatch(expected_reference, event_reference) ==
    Truthy(expected_reference) /\ Truthy(event_reference)
    /\ ~PyEq(expected_reference, event_reference)

cwc_amount_mismatch(expected_amount, event_amount) ==
    IsInt(expected_amount) /\ IsInt(event_amount)
    /\ ~PyEq(expected_amount, event_amount)

\* the errors collected before the order_status test (lines 27-42)
cwc_signature_errors(d) ==
    LET raw == Get(d, "headers")
        headers == IF IsDict(raw) THEN raw.v ELSE EmptyObj
    IN (IF cwc_raw_body_missing(Get(d, "raw_body_enabled"))
        THEN <<err("RAW_BODY_REQUIRED", "raw_body_enabled")>> ELSE <<>>)
       \o (IF cwc_wrong_header_name(Get(d, "signature_header_name"))
           THEN <<err("WRONG_SIGNATURE_HEADER", "signature_header_name")>> ELSE <<>>)
       \o (IF ~IsDict(raw) THEN <<err("INVALID_HEADERS", "headers")>> ELSE <<>>)
       \o (IF cwc_signature_missing(Get(headers, "x-paystack-signature"))
           THEN <<err("MISSING_SIGNATURE", "headers.x-paystack-signature")>> ELSE <<>>)

\* the envelope of the order_status == "paid" exit (lines 44-52)
cwc_paid_exit(errors) ==
    Emit(Envelope(TRUE, CWC, <<>>, <<>>,
                  [action |-> "no-op", reason |-> "order already paid",
                   idempotent |-> TRUE]), 0)

\* all the errors of a run that is not short-circuited (lines 27-62)
cwc_errors(d) ==
    cwc_signature_errors(d)
    \o (IF cwc_reference_mismatch(Get(d, "expected_reference"), Get(d, "event_reference"))
        THEN <<err("REFERENCE_MISMATCH", "event_reference")>> ELSE <<>>)
    \o (IF cwc_amount_mismatch(Get(d, "expected_amount_kobo"), Get(d, "event_amount_kobo"))
        THEN <<err("AMOUNT_MISMATCH", "event_amount_kobo")>> ELSE <<>>)

check_webhook_contract(d) ==
    IF cwc_already_paid(d) THEN cwc_paid_exit(cwc_signature_errors(d))
    ELSE IF cwc_errors(d) # <<>>
         THEN Emit(Envelope(FALSE, CWC, cwc_errors(d), <<>>, [action |-> "reject"]), 1)
         ELSE Emit(Envelope(TRUE, CWC, <<>>, <<>>,
                            [action |-> "process-webhook",
                             signature_header |-> "x-paystack-signature"]), 0)

CWCHeaders ==
    {Absent, S("oops"), JObj(EmptyObj)} \cup
    {JObj([k \in {"x-paystack-signature"} |-> sig]) : sig \in {S("sig"), JStr(<<>>), JInt(0)}}

CWCReferences == {Absent, S("ref1"), S("ref2"), JStr(<<>>), JInt(1)}
CWCAmounts == {Absent} \cup {JInt(n) : n \in 0..MaxAmount} \cup {S("1")}

CWCInputs ==
    {Prune([raw_body_enabled |-> rb, signature_header_name |-> hn, headers |-> h,
            order_status |-> os, expected_reference |-> er, event_reference |-> vr,
            expected_amount_kobo |-> ea, event_amount_kobo |-> va]) :
        rb \in {Absent, JBool(TRUE), JInt(1)},
        hn \in {Absent, S("x-paystack-signature"), S("X-Paystack-Signature")},
        h \in CWCHeaders, os \in {Absent, S("paid")},
        er \in CWCReferences, vr \in CWCReferences,
        ea \in CWCAmounts, va \in CWCAmounts}

\* ------------------------------------------------------------
\* flutterwave-integration/scripts/check-webhook-signature-mode.py
CWSM == "check-webhook-signature-mode"

VALID_MODES == {S("verif-hash"), S("hmac-sha256")}

\* mode not in VALID_MODES: a value that cannot be hashed is never given here
cwsm_invalid_mode(mode) == \A m \in VALID_MODES : ~PyEq(mode, m)

cwsm_errors(d) ==
    LET mode == Get(d, "signature_mode")
        raw == Get(d, "headers")
        headers == IF IsDict(raw) THEN raw.v ELSE EmptyObj
    IN (IF cwsm_invalid_mode(mode)
        THEN <<err("INVALID_SIGNATURE_MODE", "signature_mode")>> ELSE <<>>)
       \o (IF ~IsDict(raw) THEN <<err("INVALID_HEADERS", "headers")>> ELSE <<>>)
       \o (IF PyEq(mode, S("verif-hash")) /\ ~Truthy(Get(headers, "verif-hash"))
           THEN <<err("MISSING_VERIF_HASH", "headers.verif-hash")>> ELSE <<>>)
       \o (IF PyEq(mode, S("hmac-sha256")) /\ ~IsTrue(Get(d, "raw_body_enabled"))
           THEN <<err("RAW_BODY_REQUIRED", "raw_body_enabled")>> ELSE <<>>)
       \o (IF PyEq(mode, S("hmac-sha256"))
              /\ ~Truthy(Get(headers, "x-flutterwave-signature"))
           THEN <<err("MISSING_HMAC_HEADER", "headers.x-flutterwave-signature")>>
           ELSE <<>>)

check_webhook_signature_mode(d) ==
    IF cwsm_errors(d) # <<>>
    THEN Emit(Envelope(FALSE, CWSM, cwsm_errors(d), <<>>, [action |-> "reject"]), 1)
    ELSE Emit(Envelope(TRUE, CWSM, <<>>, <<>>,
                       [action |-> "process-webhook",
                        signature_mode |-> Get(d, "signature_mode")]), 0)

CWSMHeaders ==
    {Absent, S("oops")} \cup
    {JObj(Prune([k \in {"verif-hash", "x-flutterwave-signature"} |->
                    IF k = "verif-hash" THEN vh ELSE hs])) :
        vh \in {Absent, S("hash"), JStr(<<>>)}, hs \in {Absent, S("sig"), JStr(<<>>)}}

CWSMInputs ==
    {Prune([signature_mode |-> m, headers |-> h, raw_body_enabled |-> rb]) :
        m \in {Absent, S("verif-hash"), S("hmac-sha256"), S("none"), JInt(1)},
        h \in CWSMHeaders,
        rb \in {Absent, JBool(TRUE), JBool(FALSE), JInt(1)}}

\* ------------------------------------------------------------
\* social-auth-core/scripts/translate-provider-credentials.py
TPC == "translate-provider-credentials"

Providers == {<<"google">>, <<"github">>, <<"linkedin">>, <<"apple">>, <<"twitter">>}

PROVIDER_REQUIREMENTS(provider) ==
    CASE provider = <<"google">> ->
            [required |-> <<"client_id", "client_secret">>,
             env |-> [client_id |-> "GOOGLE_CLIENT_ID",
                      client_secret |-> "GOOGLE_CLIENT_SECRET"]]
      [] provider = <<"github">> ->
            [required |-> <<"client_id", "client_secret">>,
             env |-> [client_id |-> "GITHUB_CLIENT_ID",
                      client_secret |-> "GITHUB_CLIENT_SECRET"]]
      [] provider = <<"linkedin">> ->
            [required |-> <<"client_id", "client_secret">>,
             env |-> [client_id |-> "LINKEDIN_CLIENT_ID",
                      client_secret |-> "LINKEDIN_CLIENT_SECRET"]]
      [] provider = <<"apple">> ->
            [required |-> <<"client_id", "team_id", "key_id", "private_key">>,
             env |-> [client_id |-> "APPLE_CLIENT_ID", team_id |-> "APPLE_TEAM_ID",
                      key_id |-> "APPLE_KEY_ID", private_key |-> "APPLE_PRIVATE_KEY"]]
      [] provider = <<"twitter">> ->
            [required |-> <<"client_id", "client_secret">>,
             env |-> [client_id |-> "TWITTER_CLIENT_ID",
                      client_secret |-> "TWITTER_CLIENT_SECRET"]]

\* provider = str(data.get("provider", "")).strip().lower()
tpc_provider(d) == Lower(Strip(Str(GetDefault(d, "provider", JStr(<<>>)))))

\* the first stage (lines 53-58)
tpc_shape_errors(d) ==
    (IF tpc_provider(d) \notin Providers
     THEN <<err("UNSUPPORTED_PROVIDER", "provider")>> ELSE <<>>)
    \o (IF ~IsDict(Get(d, "credentials"))
        THEN <<err("INVALID_CREDENTIALS", "credentials")>> ELSE <<>>)

\* mutant of tpc_missing_credentials: `key not in creds` in place of
\* `not creds.get(key)`
RECURSIVE tpc_absent_credentials(_, _)
tpc_absent_credentials(required, creds) ==
    IF required = <<>> THEN <<>>
    ELSE (IF Head(required) \notin DOMAIN creds
          THEN <<err("MISSING_CREDENTIAL", "credentials." \o Head(required))>>
          ELSE <<>>)
         \o tpc_absent_credentials(Tail(required), creds)

\* for key in req["required"]: if not creds.get(key): errors.append(...)
RECURSIVE tpc_missing_credentials(_, _)
tpc_missing_credentials(required, creds) ==
    IF required = <<>> THEN <<>>
    ELSE (IF ~Truthy(Get(creds, Head(required)))
          THEN <<err("MISSING_CREDENTIAL", "credentials." \o Head(required))>>
          ELSE <<>>)
         \o tpc_missing_credentials(Tail(required), creds)

\* mapped[req["env"][key]] = str(creds[key]) for the keys that are given
tpc_mapped(req, creds) ==
    LET given == {req.required[i] : i \in {j \in 1..Len(req.required) :
                                            Truthy(Get(creds, req.required[j]))}}
    IN [name \in {req.env[k] : k \in given} |->
            Str(creds[CHOOSE k \in given : req.env[k] = name])]

translate_provider_credentials(d) ==
    LET provider == tpc_provider(d)
        errors0 == tpc_shape_errors(d)
    IN IF errors0 # <<>>
       THEN Emit(Envelope(FALSE, TPC, errors0, <<>>, EmptyObj), 1)
       ELSE LET req == PROVIDER_REQUIREMENTS(provider)
                creds == Get(d, "credentials").v
                errors1 == tpc_missing_credentials(req.required, creds)
            IN IF errors1 # <<>>
               THEN Emit(Envelope(FALSE, TPC, errors1, <<>>, [provider |-> provider]), 1)
               ELSE Emit(Envelope(TRUE, TPC, <<>>, <<>>,
                                  [provider |-> provider,
                                   env_mapping |-> tpc_mapped(req, creds)]), 0)

TPCProviders ==
    {Absent, Null, JInt(1), S("google"), S("Google"), JStr(<<" ", "GITHUB", " ">>),
     S("linkedin"), S("apple"), S("twitter"), S("facebook")}

TPCCredentials ==
    {Absent, S("oops")} \cup
    {JObj(Prune([client_id |-> ci, client_secret |-> cs, team_id |-> ti,
                 key_id |-> ki, private_key |-> pk])) :
        ci \in {Absent, S("id"), JStr(<<>>), JInt(1), JInt(0)},
        cs \in {Absent, S("secret"), JBool(FALSE)},
        ti \in {Absent, S("team")}, ki \in {Absent, S("key")},
        pk \in {Absent, S("pem")}}

TPCInputs ==
    {Prune([provider |-> p, credentials |-> c]) :
        p \in TPCProviders, c \in TPCCredentials}

\* ------------------------------------------------------------
\* social-auth-core/scripts/validate-output-schema.py
VOS == "validate-output-schema"

REQUIRED_ROOT == <<"summary", "artifacts", "next_actions", "machine_json">>
REQUIRED_MACHINE == <<"decisions", "risks", "required_inputs", "validation_results">>

\* for arr_key in [...]: arr is not None and not isinstance(arr, list)
RECURSIVE vos_array_errors(_, _)
vos_array_errors(keys, d) ==
    IF keys = <<>> THEN <<>>
    ELSE (IF Get(d, Head(keys)).t # "null" /\ ~IsList(Get(d, Head(keys)))
          THEN <<err("INVALID_TYPE", Head(keys))>> ELSE <<>>)
         \o vos_array_errors(Tail(keys), d)

\* for idx, item in enumerate(results): ...   (idx counts from 0)
RECURSIVE vos_item_errors(_, _)
vos_item_errors(results, idx) ==
    IF idx >= Len(results) THEN <<>>
    ELSE LET item == results[idx + 1]
             path == "machine_json.validation_results[" \o ToString(idx) \o "]"
         IN (IF ~IsDict(item) THEN <<err("INVALID_ITEM", path)>>
             ELSE IF "name" \notin DOMAIN item.v \/ "ok" \notin DOMAIN item.v
                  THEN <<err("MISSING_FIELD", path)>>
                  ELSE <<>>)
            \o vos_item_errors(results, idx + 1)

vos_errors(d) ==
    LET raw == Get(d, "machine_json")
        machine == IF IsDict(raw) THEN raw.v ELSE EmptyObj
        summary == Get(d, "summary")
        results == Get(machine, "validation_results")
    IN MissingFields(REQUIRED_ROOT, d, "")
       \o (IF ~IsDict(raw) THEN <<err("INVALID_TYPE", "machine_json")>> ELSE <<>>)
       \o MissingFields(REQUIRED_MACHINE, machine, "machine_json.")
       \o (IF IsStr(summary) /\ Strip(summary.v) = <<>>
           THEN <<err("EMPTY_SUMMARY", "summary")>> ELSE <<>>)
       \o vos_array_errors(<<"artifacts", "next_actions">>, d)
       \o (IF results.t = "null" THEN <<>>
           ELSE IF ~IsList(results)
                THEN <<err("INVALID_TYPE", "machine_json.validation_results")>>
                ELSE vos_item_errors(results.v, 0))

validate_output_schema(d) ==
    IF vos_errors(d) # <<>>
    THEN Emit(Envelope(FALSE, VOS, vos_errors(d), <<>>, [action |-> "fix-output"]), 1)
    ELSE Emit(Envelope(TRUE, VOS, <<>>, <<>>, [action |-> "schema-valid"]), 0)

VOSItems ==
    {S("oops"), JObj(EmptyObj), JObj([name |-> S("lint")]),
     JObj([name |-> S("lint"), ok |-> JBool(TRUE)])}

RECURSIVE SeqsUpTo(_, _)
SeqsUpTo(set, n) ==
    IF n = 0 THEN {<<>>}
    ELSE SeqsUpTo(set, n - 1)
         \cup {Append(q, x) : q \in {r \in SeqsUpTo(set, n - 1) : Len(r) = n - 1}, x \in set}

VOSMachines ==
    {Absent, S("oops")} \cup
    {JObj(Prune([decisions |-> dc, risks |-> rk, required_inputs |-> ri,
                 validation_results |-> vr])) :
        dc \in {Absent, JList(<<>>)}, rk \in {Absent, JList(<<>>)},
        ri \in {Absent, JList(<<>>)},
        vr \in {Absent, Null, S("oops")} \cup {JList(q) : q \in SeqsUpTo(VOSItems, MaxItems)}}

VOSInputs ==
    {Prune([summary |-> sm, artifacts |-> ar, next_actions |-> na, machine_json |-> mj]) :
        sm \in {Absent, S("done"), JStr(<<>>), JStr(<<" ", "\t">>), JInt(1)},
        ar \in {Absent, Null, JList(<<>>), S("oops")},
        na \in {Absent, Null, JList(<<>>)},
        mj \in VOSMachines}

\* ------------------------------------------------------------
\* social-auth-core/scripts/validate-redirect-uri.py
VRU == "validate-redirect-uri"

\* the chunks that are one delimiter character; every other chunk is a run
\* of letters, digits, "." "+" "-" "=" and holds no delimiter
IsDelimiter(c) == c \in {":", "/", "?", "#", "[", "]", "@"}

\* a chunk made of scheme characters only (letters, digits, "+", "-", ".")
IsSchemeChunk(c) == ~IsDelimiter(c) /\ c \notin {"next=", " ", "\t"}

\* a chunk whose first character is an ASCII letter
StartsWithLetter(c) == IsSchemeChunk(c) /\ c \notin {"127.0.0.1", "8080", "5", "1"}

\* the least index, from position i on, of a chunk of s that is in set;
\* Len(s) + 1 if none
FindFrom(s, i, set) ==
    LET hits == {j \in i..Len(s) : s[j] \in set}
    IN IF hits = {} THEN Len(s) + 1 ELSE CHOOSE j \in hits : \A k \in hits : j <= k

\* the greatest index of chunk c in s; 0 if none
RECURSIVE RFind(_, _, _)
RFind(s, c, i) == IF i = 0 THEN 0 ELSE IF s[i] = c THEN i ELSE RFind(s, c, i - 1)

Contains(s, c) == \E i \in 1..Len(s) : s[i] = c

\* urllib.parse.urlsplit as urlparse uses it: scheme, netloc and path of the
\* text url; raised is TRUE where urlsplit raises ValueError ("Invalid IPv6 URL")
urlparse(url) ==
    LET colon == FindFrom(url, 1, {":"})
        has_scheme == /\ colon > 1 /\ colon <= Len(url)
                      /\ StartsWithLetter(url[1])
                      /\ \A i \in 1..(colon - 1) : IsSchemeChunk(url[i])
        scheme == IF has_scheme THEN Lower(SubSeq(url, 1, colon - 1)) ELSE <<>>
        rest == IF has_scheme THEN SubSeq(url, colon + 1, Len(url)) ELSE url
        has_netloc == Len(rest) >= 2 /\ rest[1] = "/" /\ rest[2] = "/"
        netloc_end == IF has_netloc THEN FindFrom(rest, 3, {"/", "?", "#"}) ELSE 1
        netloc == IF has_netloc THEN SubSeq(rest, 3, netloc_end - 1) ELSE <<>>
        after == IF has_netloc THEN SubSeq(rest, netloc_end, Len(rest)) ELSE rest
        path == SubSeq(after, 1, FindFrom(after, 1, {"?", "#"}) - 1)
    IN [scheme |-> scheme, netloc |-> netloc, path |-> path,
        raised |-> Contains(netloc, "[") # Contains(netloc, "]")]

\* ParseResult.hostname: the host of the netloc in lower case, without user
\* information and port; None when it is empty
hostname(parsed) ==
    LET netloc == parsed.netloc
        hostinfo == SubSeq(netloc, RFind(netloc, "@", Len(netloc)) + 1, Len(netloc))
        first_open == FindFrom(hostinfo, 1, {"["})
        bracketed == SubSeq(hostinfo, first_open + 1, Len(hostinfo))
        host == IF first_open <= Len(hostinfo)
                THEN SubSeq(bracketed, 1, FindFrom(bracketed, 1, {"]"}) - 1)
                ELSE SubSeq(hostinfo, 1, FindFrom(hostinfo, 1, {":"}) - 1)
    IN IF host = <<>> THEN Null ELSE JStr(Lower(host))

\* "/callback" in path
vru_has_callback(path) ==
    \E i \in 1..(Len(path) - 1) :
        path[i] = "/" /\ path[i + 1] \in {"callback", "callbacks"}

vru_is_local(host) == host \in {S("localhost"), S("127.0.0.1")}

vru_insecure(r) == r.scheme # <<"https">> /\ ~vru_is_local(hostname(r))

vru_domain_mismatch(b_host, r_host) ==
    Truthy(b_host) /\ Truthy(r_host) /\ ~PyEq(b_host, r_host)

\* the first stage (lines 26-29)
vru_missing_errors(d) ==
    (IF ~Truthy(Get(d, "backend_base_url"))
     THEN <<err("MISSING_FIELD", "backend_base_url")>> ELSE <<>>)
    \o (IF ~Truthy(Get(d, "redirect_uri"))
        THEN <<err("MISSING_FIELD", "redirect_uri")>> ELSE <<>>)

\* the second stage (lines 38-53), on the two parsed URLs
vru_url_errors(b, r) ==
    (IF b.scheme \notin {<<"http">>, <<"https">>}
     THEN <<err("INVALID_URL", "backend_base_url")>> ELSE <<>>)
    \o (IF r.scheme \notin {<<"http">>, <<"https">>}
        THEN <<err("INVALID_URL", "redirect_uri")>> ELSE <<>>)
    \o (IF vru_insecure(r) THEN <<err("INSECURE_REDIRECT", "redirect_uri")>> ELSE <<>>)
    \o (IF vru_domain_mismatch(hostname(b), hostname(r))
        THEN <<err("DOMAIN_MISMATCH", "redirect_uri")>> ELSE <<>>)
    \o (IF ~vru_has_callback(r.path)
        THEN <<err("UNEXPECTED_PATH", "redirect_uri")>> ELSE <<>>)

validate_redirect_uri(d) ==
    LET errors0 == vru_missing_errors(d)
        b == urlparse(Str(Get(d, "backend_base_url")))
        r == urlparse(Str(Get(d, "redirect_uri")))
        errors1 == vru_url_errors(b, r)
    IN IF errors0 # <<>>
       THEN Emit(Envelope(FALSE, VRU, errors0, <<>>, EmptyObj), 1)
       ELSE IF b.raised \/ r.raised THEN Uncaught
       ELSE IF errors1 # <<>>
            THEN Emit(Envelope(FALSE, VRU, errors1, <<>>, EmptyObj), 1)
            ELSE Emit(Envelope(TRUE, VRU, <<>>, <<>>,
                               [backend_host |-> hostname(b),
                                redirect_host |-> hostname(r),
                                redirect_path |-> JStr(r.path),
                                action |-> "redirect-uri-valid"]), 0)

URLSchemes == {<<>>, <<"https", ":">>, <<"http", ":">>, <<"HTTPS", ":">>, <<"ftp", ":">>}

URLAuthorities ==
    {<<>>, <<"/", "/">>, <<"/", "/", "api.x.com">>, <<"/", "/", "API.X.COM">>,
     <<"/", "/", "evil.com">>, <<"/", "/", "localhost">>, <<"/", "/", "127.0.0.1">>,
     <<"/", "/", "user", "@", "api.x.com">>, <<"/", "/", "api.x.com", ":", "8080">>,
     <<"/", "/", "[", "api.x.com">>}

URLPaths ==
    {<<>>, <<"/", "auth", "/", "callback">>, <<"/", "home">>,
     <<"?", "next=", "/", "callback">>}

VRUBackends ==
    {Absent, JStr(<<>>), JInt(5)} \cup {JStr(sc \o au) : sc \in URLSchemes, au \in URLAuthorities}

VRURedirects ==
    {Absent, JStr(<<>>), JInt(5)}
    \cup {JStr(sc \o au \o pa) : sc \in URLSchemes, au \in URLAuthorities, pa \in URLPaths}

VRUInputs ==
    {Prune([backend_base_url |-> b, redirect_uri |-> r]) :
        b \in VRUBackends, r \in VRURedirects}

\* ------------------------------------------------------------ the run
Tools == {VVR, VPC, CWC, CWSM, TPC, VOS, VRU}

Inputs(t) ==
    CASE t = VVR -> VVRInputs
      [] t = VPC -> VPCInputs
      [] t = CWC -> CWCInputs
      [] t = CWSM -> CWSMInputs
      [] t = TPC -> TPCInputs
      [] t = VOS -> VOSInputs
      [] t = VRU -> VRUInputs

Init ==
    /\ pc = "start"
    /\ tool = "none"
    /\ data = EmptyObj
    /\ stdout = <<>>
    /\ exit_status = -1

\* data = load_payload(): one JSON object from the file argument or stdin
load_payload ==
    /\ pc = "start"
    /\ \E t \in Tools : \E d \in Inputs(t) :
        /\ tool' = t
        /\ data' = d
    /\ pc' = "loaded"
    /\ UNCHANGED <<stdout, exit_status>>

\* raise SystemExit(main()): the run prints what main printed and exits with
\* the status main returned
validate_verify_response_main ==
    /\ pc = "loaded" /\ tool = VVR
    /\ stdout' = validate_verify_response(data).out
    /\ exit_status' = validate_verify_response(data).exit
    /\ pc' = "exited"
    /\ UNCHANGED <<tool, data>>

validate_payment_contract_main ==
    /\ pc = "loaded" /\ tool = VPC
    /\ stdout' = validate_payment_contract(data).out
    /\ exit_status' = validate_payment_contract(data).exit
    /\ pc' = "exited"
    /\ UNCHANGED <<tool, data>>

check_webhook_contract_main ==
    /\ pc = "loaded" /\ tool = CWC
    /\ stdout' = check_webhook_contract(data).out
    /\ exit_status' = check_webhook_contract(data).exit
    /\ pc' = "exited"
    /\ UNCHANGED <<tool, data>>

check_webhook_signature_mode_main ==
    /\ pc = "loaded" /\ tool = CWSM
    /\ stdout' = check_webhook_signature_mode(data).out
    /\ exit_status' = check_webhook_signature_mode(data).exit
    /\ pc' = "exited"
    /\ UNCHANGED <<tool, data>>

translate_provider_credentials_main ==
    /\ pc = "loaded" /\ tool = TPC
    /\ stdout' = translate_provider_credentials(data).out
    /\ exit_status' = translate_provider_credentials(data).exit
    /\ pc' = "exited"
    /\ UNCHANGED <<tool, data>>

validate_output_schema_main ==
    /\ pc = "loaded" /\ tool = VOS
    /\ stdout' = validate_output_schema(data).out
    /\ exit_status' = validate_output_schema(data).exit
    /\ pc' = "exited"
    /\ UNCHANGED <<tool, data>>

validate_redirect_uri_main ==
    /\ pc = "loaded" /\ tool = VRU
    /\ stdout' = validate_redirect_uri(data).out
    /\ exit_status' = validate_redirect_uri(data).exit
    /\ pc' = "exited"
    /\ UNCHANGED <<tool, data>>

Next ==
    \/ load_payload
    \/ validate_verify_response_main
    \/ validate_payment_contract_main
    \/ check_webhook_contract_main
    \/ check_webhook_signature_mode_main
    \/ translate_provider_credentials_main
    \/ validate_output_schema_main
    \/ validate_redirect_uri_main

Spec == Init /\ [][Next]_vars

\* ------------------------------------------------------------ properties
Exited == pc = "exited"

\* the run printed exactly one envelope
OneEnvelope == Len(stdout) = 1

HasError(env, code, path) ==
    \E i \in 1..Len(env.errors) : env.errors[i].code = code /\ env.errors[i].path = path

HasCode(env, code) == \E i \in 1..Len(env.errors) : env.errors[i].code = code

ActionOf(env) == IF "action" \in DOMAIN env.result THEN env.result.action ELSE "none"

\* the input's order_status is the string "paid"
Paid == JsonEq(Get(data, "order_status"), S("paid"))

\* the field at a nested location; null when the parent is no object
Field(d, parent, key) ==
    IF IsDict(Get(d, parent)) THEN Get(Get(d, parent).v, key) ELSE Null

\* the input gives both values and, as JSON values, they are not the same
Differs(actual, expected) ==
    actual.t # "null" /\ expected.t # "null" /\ ~JsonEq(actual, expected)

\* C1: in the three payment validators an input whose order_status is "paid"
\* always ends with one envelope that is ok:true, has no errors, has
\* result.idempotent true and result.action "no-op", and with exit status 0,
\* whatever else the input holds and whatever errors were collected before.
C1_PaidIsNoOp ==
    (Exited /\ tool \in {VVR, CWC, VPC} /\ Paid) =>
        /\ OneEnvelope
        /\ stdout[1].ok = TRUE
        /\ stdout[1].errors = <<>>
        /\ stdout[1].result.idempotent = TRUE
        /\ stdout[1].result.action = "no-op"
        /\ exit_status = 0

\* a paid run of validate-verify-response whose earlier checks had collected errors
C1_Witness ==
    /\ Exited /\ tool = VVR /\ Paid
    /\ vvr_field_errors(data) # <<>>
    /\ OneEnvelope /\ stdout[1].ok = TRUE

\* C2: every run prints exactly one envelope; the exit status is 0 exactly
\* when it is ok:true with no errors and 1 exactly when it is ok:false with
\* errors.
C2_ExitMatchesEnvelope ==
    Exited =>
        /\ OneEnvelope
        /\ exit_status \in {0, 1}
        /\ exit_status = 0 <=> (stdout[1].ok = TRUE /\ stdout[1].errors = <<>>)
        /\ exit_status = 1 <=> (stdout[1].ok = FALSE /\ stdout[1].errors # <<>>)

\* C3: validate-payment-contract, order_status not "paid": a reference or
\* amount that differs from the expected one (as JSON values of any type) or
\* a status other than "success" ends ok:false with the matching error, so
\* "mark-paid" is emitted only for status "success" with equal reference and
\* equal amount.
C3_MarkPaidOnlyOnMatch ==
    (Exited /\ tool = VPC /\ ~Paid) =>
        LET env == stdout[1]
            ref_differs == Differs(Field(data, "verify_payload", "reference"),
                                   Get(data, "expected_reference"))
            amount_differs == Differs(Field(data, "verify_payload", "amount"),
                                      Get(data, "expected_amount_kobo"))
            bad_status == ~JsonEq(Field(data, "verify_payload", "status"), S("success"))
        IN /\ OneEnvelope
           /\ ref_differs =>
                env.ok = FALSE /\ HasError(env, "REFERENCE_MISMATCH", "verify_payload.reference")
           /\ amount_differs =>
                env.ok = FALSE /\ HasError(env, "AMOUNT_MISMATCH", "verify_payload.amount")
           /\ bad_status =>
                env.ok = FALSE /\ HasError(env, "INVALID_STATUS", "verify_payload.status")
           /\ ActionOf(env) = "mark-paid" => ~ref_differs /\ ~amount_differs /\ ~bad_status

\* C4: validate-verify-response, order_status not "paid": a tx_ref or amount
\* that differs from the expected one ends ok:false with TX_REF_MISMATCH or
\* AMOUNT_MISMATCH, for every status, "success-pending-validation" included.
C4_MismatchAlwaysReported ==
    (Exited /\ tool = VVR /\ ~Paid) =>
        LET env == stdout[1]
        IN /\ OneEnvelope
           /\ Differs(Field(data, "verify_payload", "tx_ref"), Get(data, "expected_tx_ref")) =>
                env.ok = FALSE /\ HasError(env, "TX_REF_MISMATCH", "verify_payload.tx_ref")
           /\ Differs(Field(data, "verify_payload", "amount"), Get(data, "expected_amount")) =>
                env.ok = FALSE /\ HasError(env, "AMOUNT_MISMATCH", "verify_payload.amount")

\* the x-paystack-signature header is present and not empty
C5_SignatureGiven ==
    /\ IsDict(Get(data, "headers"))
    /\ "x-paystack-signature" \in DOMAIN Get(data, "headers").v
    /\ Get(data, "headers").v["x-paystack-signature"] \notin {Null, JStr(<<>>)}

\* C5: check-webhook-contract, order_status not "paid": "process-webhook" is
\* emitted only when raw_body_enabled is the boolean true, signature_header_name
\* is "x-paystack-signature", headers is an object and holds a non-empty
\* x-paystack-signature; when one of these fails the run ends ok:false with
\* action "reject" and the matching error.
C5_ProcessOnlyWhenSigned ==
    (Exited /\ tool = CWC /\ ~Paid) =>
        LET env == stdout[1]
            raw_ok == JsonEq(Get(data, "raw_body_enabled"), JBool(TRUE))
            name_ok == JsonEq(Get(data, "signature_header_name"), S("x-paystack-signature"))
            headers_ok == IsDict(Get(data, "headers"))
            Rejected(code, path) ==
                env.ok = FALSE /\ ActionOf(env) = "reject" /\ HasError(env, code, path)
        IN /\ OneEnvelope
           /\ ActionOf(env) = "process-webhook" =>
                env.ok = TRUE /\ raw_ok /\ name_ok /\ headers_ok /\ C5_SignatureGiven
           /\ ~raw_ok => Rejected("RAW_BODY_REQUIRED", "raw_body_enabled")
           /\ ~name_ok => Rejected("WRONG_SIGNATURE_HEADER", "signature_header_name")
           /\ ~headers_ok => Rejected("INVALID_HEADERS", "headers")
           /\ ~C5_SignatureGiven => Rejected("MISSING_SIGNATURE", "headers.x-paystack-signature")

\* a webhook that passes all four signature checks and is processed
C5_Witness ==
    /\ Exited /\ tool = CWC /\ ~Paid
    /\ IsTrue(Get(data, "raw_body_enabled")) /\ C5_SignatureGiven
    /\ OneEnvelope /\ ActionOf(stdout[1]) = "process-webhook"

\* C6: check-webhook-contract, order_status not "paid": an event_reference or
\* event_amount_kobo that differs from the expected one (absent, empty, zero
\* or of another type included) ends ok:false with REFERENCE_MISMATCH or
\* AMOUNT_MISMATCH, so "process-webhook" is never emitted for it.
C6_WebhookMismatchRejected ==
    (Exited /\ tool = CWC /\ ~Paid) =>
        LET env == stdout[1]
            ref_differs == ~JsonEq(Get(data, "event_reference"), Get(data, "expected_reference"))
            amount_differs ==
                ~JsonEq(Get(data, "event_amount_kobo"), Get(data, "expected_amount_kobo"))
        IN /\ OneEnvelope
           /\ ref_differs => env.ok = FALSE /\ HasError(env, "REFERENCE_MISMATCH", "event_reference")
           /\ amount_differs =>
                env.ok = FALSE /\ HasError(env, "AMOUNT_MISMATCH", "event_amount_kobo")
           /\ ActionOf(env) = "process-webhook" => ~ref_differs /\ ~amount_differs

\* the required fields of each validator, as locations <<key>> or <<parent, key>>
RequiredFields(t) ==
    CASE t = VVR -> {<<"expected_tx_ref">>, <<"expected_amount">>, <<"verify_payload">>,
                     <<"verify_payload", "status">>, <<"verify_payload", "tx_ref">>,
                     <<"verify_payload", "amount">>}
      [] t = VPC -> {<<"expected_reference">>, <<"expected_amount_kobo">>,
                     <<"verify_payload">>, <<"verify_payload", "status">>,
                     <<"verify_payload", "reference">>, <<"verify_payload", "amount">>}
      [] t = CWC -> {<<"raw_body_enabled">>, <<"signature_header_name">>, <<"headers">>}
      [] t = CWSM -> {<<"signature_mode">>, <<"headers">>}
      [] t = TPC -> {<<"provider">>, <<"credentials">>}
      [] t = VOS -> {<<"summary">>, <<"artifacts">>, <<"next_actions">>, <<"machine_json">>,
                     <<"machine_json", "decisions">>, <<"machine_json", "risks">>,
                     <<"machine_json", "required_inputs">>,
                     <<"machine_json", "validation_results">>}
      [] t = VRU -> {<<"backend_base_url">>, <<"redirect_uri">>}

Dotted(f) == IF Len(f) = 1 THEN f[1] ELSE f[1] \o "." \o f[2]

\* the input has no value at the location f
Lacks(d, f) ==
    IF Len(f) = 1 THEN f[1] \notin DOMAIN d
    ELSE \/ f[1] \notin DOMAIN d
         \/ ~IsDict(d[f[1]])
         \/ f[2] \notin DOMAIN d[f[1]].v

Violations(t, d) ==
    CASE t = VVR ->
            vvr_mismatch_errors(d)
            \o (IF Field(d, "verify_payload", "status")
                      \notin {S("successful"), S("success-pending-validation")}
                THEN <<err("INVALID_STATUS", "verify_payload.status")>> ELSE <<>>)
      [] t = VPC -> vpc_errors(d)
      [] t = CWC -> cwc_errors(d)
      [] t = CWSM -> cwsm_errors(d)
      [] t = VOS -> vos_errors(d)
      [] t = TPC ->
            tpc_shape_errors(d)
            \o (IF tpc_provider(d) \in Providers
                THEN tpc_missing_credentials(
                        PROVIDER_REQUIREMENTS(tpc_provider(d)).required,
                        IF IsDict(Get(d, "credentials")) THEN Get(d, "credentials").v
                        ELSE EmptyObj)
                ELSE <<>>)
      [] t = VRU ->
            vru_missing_errors(d)
            \o vru_url_errors(urlparse(Str(Get(d, "backend_base_url"))),
                              urlparse(Str(Get(d, "redirect_uri"))))

\* C8: order_status not "paid": evaluation never stops early; the envelope
\* lists every rule the input violates, in the order the checks are defined.
C8_AllViolationsReported ==
    (Exited /\ ~Paid) =>
        OneEnvelope /\ stdout[1].errors = Violations(tool, data)

\* C9: validate-redirect-uri: an ok:true envelope means the redirect_uri host
\* equals the backend_base_url host, both non-null.
C9_OkMeansSameHost ==
    (Exited /\ tool = VRU /\ OneEnvelope /\ stdout[1].ok = TRUE) =>
        /\ stdout[1].result.redirect_host # Null
        /\ stdout[1].result.backend_host # Null
        /\ stdout[1].result.redirect_host = stdout[1].result.backend_host

\* C10: validate-redirect-uri, both fields present, redirect_uri a URL text
\* that urlparse splits: a redirect_uri whose
\* scheme is not https and whose host is neither localhost nor 127.0.0.1 ends
\* ok:false with INSECURE_REDIRECT at path redirect_uri; an https or local
\* redirect_uri never gets INSECURE_REDIRECT.
C10_InsecureRedirectReported ==
    (/\ Exited /\ tool = VRU
     /\ "backend_base_url" \in DOMAIN data /\ "redirect_uri" \in DOMAIN data
     /\ IsStr(data["redirect_uri"]) /\ data["redirect_uri"].v # <<>>
     /\ ~urlparse(Str(data["redirect_uri"])).raised) =>
        LET r == urlparse(Str(data["redirect_uri"]))
            insecure == /\ r.scheme # <<"https">>
                        /\ hostname(r) \notin {S("localhost"), S("127.0.0.1")}
        IN /\ insecure =>
                /\ OneEnvelope /\ stdout[1].ok = FALSE
                /\ HasError(stdout[1], "INSECURE_REDIRECT", "redirect_uri")
           /\ ~insecure => (OneEnvelope => ~HasCode(stdout[1], "INSECURE_REDIRECT"))

\* a value that is empty: null, false, 0, or a string, array or object
\* without content
C11_Empty(x) ==
    \/ x.t = "null"
    \/ x.t = "bool" /\ x.v = FALSE
    \/ x.t = "int" /\ x.v = 0
    \/ x.t \in {"str", "list"} /\ x.v = <<>>
    \/ x.t = "obj" /\ DOMAIN x.v = {}

\* the input names one of the five providers, up to surrounding white space
\* and letter case, and its credentials are an object
C11_Covered ==
    /\ tool = TPC
    /\ "provider" \in DOMAIN data /\ IsStr(data["provider"])
    /\ Lower(Strip(data["provider"].v)) \in Providers
    /\ IsDict(Get(data, "credentials"))

\* C11: translate-provider-credentials, provider one of the five (trimmed,
\* lower-cased) and credentials an object: the run is ok:true exactly when
\* every required key of the provider has a non-empty value, and then
\* result.env_mapping has exactly one entry per required key, from the key's
\* environment-variable name to the text of its value, and nothing for other
\* keys; otherwise it is ok:false with exactly one MISSING_CREDENTIAL error,
\* path credentials.<key>, per required key without a value, and result has
\* no env_mapping.
C11_MappingIffAllCredentials ==
    (Exited /\ C11_Covered) =>
        LET env == stdout[1]
            req == PROVIDER_REQUIREMENTS(Lower(Strip(data["provider"].v)))
            creds == data["credentials"].v
            keys == {req.required[i] : i \in 1..Len(req.required)}
            missing == {k \in keys : k \notin DOMAIN creds \/ C11_Empty(creds[k])}
        IN /\ OneEnvelope
           /\ env.ok = TRUE <=> missing = {}
           /\ env.ok = TRUE =>
                /\ exit_status = 0 /\ env.errors = <<>>
                /\ DOMAIN env.result.env_mapping = {req.env[k] : k \in keys}
                /\ Cardinality(DOMAIN env.result.env_mapping) = Len(req.required)
                /\ \A k \in keys : env.result.env_mapping[req.env[k]] = Str(creds[k])
           /\ env.ok = FALSE =>
                /\ exit_status = 1
                /\ Len(env.errors) = Cardinality(missing)
                /\ \A k \in missing : HasError(env, "MISSING_CREDENTIAL", "credentials." \o k)
                /\ "env_mapping" \notin DOMAIN env.result

\* a run for " GITHUB " whose credentials hold both required keys, one of
\* them a number, and a key the provider does not need
C11_Witness ==
    /\ Exited /\ C11_Covered
    /\ data["provider"] = JStr(<<" ", "GITHUB", " ">>)
    /\ Get(data["credentials"].v, "client_id") = JInt(1)
    /\ "team_id" \in DOMAIN data["credentials"].v
    /\ OneEnvelope /\ stdout[1].ok = TRUE
    /\ stdout[1].result.env_mapping =
         [n \in {"GITHUB_CLIENT_ID", "GITHUB_CLIENT_SECRET"} |->
            IF n = "GITHUB_CLIENT_ID" THEN <<"1">> ELSE <<"secret">>]

\* the output document has the required shape: a summary with content, the
\* two arrays, a machine_json object with its four fields, and
\* validation_results an array of objects that each have name and ok
C12_WellFormed(d) ==
    /\ IsStr(Get(d, "summary")) /\ Strip(Get(d, "summary").v) # <<>>
    /\ IsList(Get(d, "artifacts"))
    /\ IsList(Get(d, "next_actions"))
    /\ IsDict(Get(d, "machine_json"))
    /\ \A i \in 1..Len(REQUIRED_MACHINE) :
            REQUIRED_MACHINE[i] \in DOMAIN Get(d, "machine_json").v
    /\ IsList(Field(d, "machine_json", "validation_results"))
    /\ LET results == Field(d, "machine_json", "validation_results").v
       IN \A i \in 1..Len(results) :
            /\ IsDict(results[i])
            /\ "name" \in DOMAIN results[i].v
            /\ "ok" \in DOMAIN results[i].v

\* C12: validate-output-schema: an ok:true envelope (action "schema-valid")
\* means the input has the required shape; an input without it (artifacts
\* null, a summary that is no string or only white space, validation_results
\* null, ...) ends ok:false with action "fix-output".
C12_ValidMeansWellFormed ==
    (Exited /\ tool = VOS) =>
        /\ OneEnvelope
        /\ (stdout[1].ok = TRUE \/ ActionOf(stdout[1]) = "schema-valid") =>
                C12_WellFormed(data)
        /\ ~C12_WellFormed(data) =>
                stdout[1].ok = FALSE /\ ActionOf(stdout[1]) = "fix-output"
====
